---- MODULE Spec2Model ----
(***************************************************************************)
(* Model of the three entry points of ai-log-analyzer:                     *)
(*   "standalone"  src/analyze_log.py                                      *)
(*   "comment"     src/analyze_and_comment.py                              *)
(*   "script"      src/scripts/analyze_log.py                              *)
(* One run of one script is one behaviour.  Texts the scripts handle       *)
(* character by character (the log, the excerpt put into the prompt) are   *)
(* sequences of one-character strings; texts they only pass along (the     *)
(* analysis, the report) are sequences of text pieces, one piece per       *)
(* literal or interpolated value.                                          *)
(***************************************************************************)
EXTENDS Integers, Sequences, FiniteSets, TLC

\* ---------------------------------------------------------------- bounds
\* Longest log file the model reads, in characters.
MaxLen == 4
\* max_chars of analyze_with_gemini (30000 in the source), scaled down.
MaxChars == 2
\* The line budget of make_prompt (2000 in the source), scaled down.
MaxLines == 2
\* Indentation of the template lines inside textwrap.dedent's argument.
TemplateIndent == 6
\* Indentation of the line that closes the template's triple quote.
ClosingIndent == 4

\* Characters a log is made of: a visible one, a blank and a line break.
Alphabet == {"a", " ", "\n"}
Docs == UNION {[1..n -> Alphabet] : n \in 0..MaxLen}

Variants == {"standalone", "comment", "script"}

\* ------------------------------------------------------- text primitives
Min(S) == CHOOSE x \in S : \A y \in S : x <= y

Spaces(n) == [i \in 1..n |-> " "]

\* Python s[-n:] for n >= 1.
LastN(s, n) == IF Len(s) <= n THEN s ELSE SubSeq(s, Len(s) - n + 1, Len(s))

\* Position of the first line break of s, 0 when there is none.
FirstBreak(s) ==
    IF \E i \in 1..Len(s) : s[i] = "\n"
    THEN Min({i \in 1..Len(s) : s[i] = "\n"})
    ELSE 0

\* str.splitlines(): the lines without their breaks; a final break opens no
\* further line.
RECURSIVE SplitLines(_)
SplitLines(s) ==
    IF s = <<>> THEN <<>>
    ELSE LET k == FirstBreak(s)
         IN IF k = 0 THEN <<s>>
            ELSE <<SubSeq(s, 1, k - 1)>> \o SplitLines(SubSeq(s, k + 1, Len(s)))

\* "\n".join(lines)
RECURSIVE JoinLines(_)
JoinLines(lines) ==
    IF lines = <<>> THEN <<>>
    ELSE IF Len(lines) = 1 THEN lines[1]
    ELSE lines[1] \o <<"\n">> \o JoinLines(Tail(lines))

\* Number of blanks a line starts with.
Lead(line) ==
    IF \E i \in 1..Len(line) : line[i] # " "
    THEN Min({i \in 1..Len(line) : line[i] # " "}) - 1
    ELSE Len(line)

Blank(line) == \A i \in 1..Len(line) : line[i] = " "

\* textwrap.dedent on a list of lines: blank lines become empty, then the
\* common margin of the other lines is removed from each of them.
DedentMargin(lines) ==
    LET idx == {i \in 1..Len(lines) : ~Blank(lines[i])}
    IN IF idx = {} THEN 0 ELSE Min({Lead(lines[i]) : i \in idx})

Dedent(lines) ==
    LET m == DedentMargin(lines)
    IN [i \in 1..Len(lines) |->
          IF Blank(lines[i]) THEN <<>>
          ELSE SubSeq(lines[i], m + 1, Len(lines[i]))]

\* ------------------------------------------------------------ truncation
\* The literal put in front of a truncated log.
Marker == "...[earlier output truncated]...\n\n"

\* analyze_with_gemini's truncation: the last max_chars characters behind
\* the marker when the log is longer, the log itself otherwise.
TruncateHead(log_content, max_chars) ==
    IF Len(log_content) > max_chars
    THEN <<Marker>> \o SubSeq(log_content, 1, max_chars)
    ELSE log_content

TruncateAlways(log_content, max_chars) ==
    <<Marker>> \o LastN(log_content, max_chars)

Truncate(log_content, max_chars) ==
    IF Len(log_content) > max_chars
    THEN <<Marker>> \o LastN(log_content, max_chars)
    ELSE log_content

\* make_prompt's log_tail: the last MaxLines lines, joined again.
LogTailLines(log_text) ==
    LET lines == SplitLines(log_text)
    IN IF Len(lines) <= MaxLines THEN lines
       ELSE SubSeq(lines, Len(lines) - MaxLines + 1, Len(lines))

\* The lines of make_prompt's f-string before dedent: the opening break, the
\* instruction lines, the start line, the log tail behind the template's
\* indentation, the end line and the closing quote's line.
TemplateLines(tailLines) ==
    <<
      <<>>,
      Spaces(TemplateIndent) \o <<"<instructions>">>,
      Spaces(TemplateIndent) \o <<"========= LOG START =========">>
    >>
    \o (IF tailLines = <<>> THEN <<Spaces(TemplateIndent)>>
        ELSE <<Spaces(TemplateIndent) \o tailLines[1]>> \o Tail(tailLines))
    \o <<
      Spaces(TemplateIndent) \o <<"========= LOG END =========">>,
      Spaces(ClosingIndent)
    >>

\* What stands between the start line and the end line of make_prompt's
\* result, without the indentation dedent left to the template.
ScriptExcerpt(log_text) ==
    LET tl   == LogTailLines(log_text)
        raw  == TemplateLines(tl)
        out  == Dedent(raw)
        n    == IF tl = <<>> THEN 1 ELSE Len(tl)
        rest == TemplateIndent - DedentMargin(raw)
        first == IF out[4] = <<>> THEN <<>>
                 ELSE SubSeq(out[4], rest + 1, Len(out[4]))
    IN JoinLines(<<first>> \o SubSeq(out, 5, 3 + n))

NoPrompt == [template |-> "none", excerpt |-> <<>>]

\* ------------------------------------------------------------ the texts
\* os.getenv gives None for an unset variable; "not api_key" also takes the
\* empty string for absent.
Unset == "<unset>"
ApiKeys == {Unset, "", "SECRET-KEY"}
GithubTokens == {Unset, "GH-TOKEN"}
Absent(value) == value = Unset \/ value = ""

\* datetime.now() as the scripts format it.
Clock == {"2025-01-01 10:00:00", "2025-01-01 10:00:01"}

\* What one call of the backend can end in.  The last three are responses that
\* arrive with a success status: a body that is no JSON, a JSON body without
\* "candidates", and one with "candidates" but no text at
\* candidates[0].content.parts[0].text.
Failures ==
    {"connection_error", "http_error", "rate_limited", "timeout",
     "not_json", "no_candidates", "bad_path"}
ShapeFailures == {"not_json", "no_candidates", "bad_path"}
Outcomes == {"ok"} \cup Failures

GeneratedText == <<"<generated text>">>
RawResponseJson == <<"<json.dumps of the response>">>

MissingCredentialText ==
    <<"Error: GEMINI_API_KEY environment variable not set">>

\* str(e) of what the google.generativeai client raises.  The client gets the
\* key through genai.configure and builds its messages itself; the scripts
\* add nothing to them.
SdkErrorText(o) == <<"<client error: " \o o \o ">">>

\* str(e) of what call_gemini raises.  The key travels as the query parameter
\* "key" of the request URL (params={"key": api_key}); requests names that URL
\* in the message of a refused connection and in raise_for_status's message
\* for a non-success status.
RequestUrl(api_key) ==
    <<"https://generativelanguage.googleapis.com/v1beta/models/gemini-1.5-flash-latest:generateContent",
      "?key=", api_key>>

RequestsErrorText(o, api_key) ==
    CASE o = "connection_error" ->
           <<"Max retries exceeded with url: ">> \o RequestUrl(api_key)
      [] o = "http_error" ->
           <<"500 Server Error for url: ">> \o RequestUrl(api_key)
      [] o = "rate_limited" ->
           <<"429 Client Error: Too Many Requests for url: ">> \o RequestUrl(api_key)
      [] o = "timeout" -> <<"Read timed out. (read timeout=60)">>
      [] o = "not_json" -> <<"Expecting value: line 1 column 1 (char 0)">>
      [] OTHER -> <<"'content'">>

\* The except branch of analyze_with_gemini: the error's text inside the
\* script's troubleshooting template.
FallbackText(v, err) ==
    IF v = "standalone"
    THEN <<"**Error During AI Analysis**">> \o err \o
         <<"**Possible Causes:** ...", "**Troubleshooting Steps:** 1. ... 5. ...",
           "**Manual Log Review:** ...">>
    ELSE <<"**Error during AI analysis**">> \o err \o
         <<"**Possible causes:** ...", "**Please check:** 1. ... 3. ...">>

IsFallback(v, text) ==
    /\ Len(text) >= 2
    /\ text[1] = (IF v = "standalone" THEN "**Error During AI Analysis**"
                  ELSE "**Error during AI analysis**")
    /\ text[Len(text)] = (IF v = "standalone" THEN "**Manual Log Review:** ..."
                          ELSE "**Please check:** 1. ... 3. ...")

\* What analyze_with_gemini returns once the call ended in o.
SdkAnalysisRaise(v, o) ==
    IF o \in {"ok", "no_candidates"} THEN GeneratedText
    ELSE FallbackText(v, SdkErrorText(o))

SdkAnalysis(v, o) ==
    IF o = "ok" THEN GeneratedText ELSE FallbackText(v, SdkErrorText(o))

\* call_gemini's result, or what main's except branch makes of its error.
ScriptErrorPrefix == "ERROR calling Gemini API: "

ScriptAnalysis(o, api_key) ==
    CASE o = "ok" -> GeneratedText
      [] o = "no_candidates" -> RawResponseJson
      [] OTHER -> <<ScriptErrorPrefix>> \o RequestsErrorText(o, api_key)

\* ----------------------------------------------------------- the report
Delimiter == "=" \o "... (80 times)"
Title == "AI-POWERED BUILD FAILURE ANALYSIS"

ReportHeader(v, ts) ==
    CASE v = "standalone" ->
           <<Delimiter, Title, Delimiter, "Generated: ", ts,
             "Analyzer: Jenkins AI Log Analyzer",
             "AI Model: Google Gemini 2.0 Flash", Delimiter>>
      [] v = "comment" -> <<Delimiter, Title, "Generated: ", ts, Delimiter>>
      [] OTHER -> <<>>

ReportFooter(v) ==
    CASE v = "standalone" -> <<Delimiter, "End of Analysis", Delimiter>>
      [] v = "comment" ->
           <<Delimiter, "Analysis completed by Jenkins AI Log Analyzer",
             "Powered by Google Gemini AI", Delimiter>>
      [] OTHER -> <<>>

\* What the run writes to the output file: save_analysis's envelope around
\* the analysis, or, in scripts/analyze_log.py, the analysis alone.
SaveContentBare(v, analysis_text, ts) ==
    IF analysis_text = GeneratedText
    THEN ReportHeader(v, ts) \o analysis_text \o ReportFooter(v)
    ELSE analysis_text

SaveContent(v, analysis_text, ts) ==
    ReportHeader(v, ts) \o analysis_text \o ReportFooter(v)

\* main's comment_body in analyze_and_comment.py.
CommentBody(analysis_text, ts) ==
    <<"## AI Build Failure Analysis">> \o analysis_text \o
    <<"---", "<sub>Analysis powered by Google Gemini AI ...</sub>", ts \o " UTC">>

\* ------------------------------------------------------------- the state
VARIABLES
    variant,       \* which script runs
    pc,            \* where main is
    args,          \* how sys.argv was found
    apiKey,        \* GEMINI_API_KEY / AI_API_KEY in the environment
    logRead,       \* the log file was read
    log,           \* its content
    prompt,        \* the prompt built, with the excerpt of the log in it
    calls,         \* calls of the AI backend
    outcome,       \* how the call ended ("none": no call)
    analysis,      \* the analysis text (<<>>: none yet)
    saved,         \* the output file was written
    report,        \* its content
    save_success,  \* save_analysis's result
    pubAttempted,  \* post_github_comment was called
    pubCalls,      \* requests sent to GitHub
    comment,       \* the comment created on the pull request (<<>>: none)
    success,       \* post_github_comment's result
    summary,       \* the closing message printed
    exitCode       \* the process's exit status (-1: still running)

vars == <<variant, pc, args, apiKey, logRead, log, prompt, calls, outcome,
          analysis, saved, report, save_success, pubAttempted, pubCalls,
          comment, success, summary, exitCode>>

Init ==
    /\ variant \in Variants
    /\ apiKey \in ApiKeys
    /\ pc = "start"
    /\ args = "unparsed"
    /\ logRead = FALSE
    /\ log = <<>>
    /\ prompt = NoPrompt
    /\ calls = 0
    /\ outcome = "none"
    /\ analysis = <<>>
    /\ saved = FALSE
    /\ report = <<>>
    /\ save_success = FALSE
    /\ pubAttempted = FALSE
    /\ pubCalls = 0
    /\ comment = <<>>
    /\ success = FALSE
    /\ summary = "none"
    /\ exitCode = -1

\* sys.exit(code), or an exception nobody catches (code 1).
Exit(code) ==
    /\ pc' = "done"
    /\ exitCode' = code

ArgCases(v) ==
    CASE v = "standalone" -> {"ok", "help", "missing"}
      [] v = "comment"    -> {"ok", "missing", "bad_repo", "bad_pr"}
      [] OTHER            -> {"ok", "missing"}

\* The argument checks at the head of each main.
ParseArguments ==
    /\ pc = "start"
    /\ \E a \in ArgCases(variant) :
         /\ args' = a
         /\ IF a = "ok" THEN pc' = "read" /\ exitCode' = exitCode
            ELSE Exit(IF a = "help" THEN 0 ELSE 1)
    /\ UNCHANGED <<variant, apiKey, logRead, log, prompt, calls, outcome,
                   analysis, saved, report, save_success, pubAttempted,
                   pubCalls, comment, success, summary>>

ReadOutcomes == {"ok", "not_found", "unreadable"}

\* After a failed read the script goes on with an empty log.
ReadLogFileContinue ==
    /\ pc = "read"
    /\ variant \in {"standalone", "comment"}
    /\ \E r \in ReadOutcomes :
         /\ IF r = "ok"
            THEN \E d \in Docs : log' = d /\ logRead' = TRUE
            ELSE log' = <<>> /\ logRead' = FALSE
         /\ pc' = "analyze" /\ exitCode' = exitCode
    /\ UNCHANGED <<variant, args, apiKey, prompt, calls, outcome, analysis,
                   saved, report, save_success, pubAttempted, pubCalls,
                   comment, success, summary>>

\* read_log_file: the content, or a message and exit status 1.
ReadLogFile ==
    /\ pc = "read"
    /\ variant \in {"standalone", "comment"}
    /\ \E r \in ReadOutcomes :
         IF r = "ok"
         THEN /\ \E d \in Docs : log' = d
              /\ logRead' = TRUE
              /\ pc' = "analyze"
              /\ exitCode' = exitCode
         ELSE /\ Exit(1)
              /\ UNCHANGED <<log, logRead>>
    /\ UNCHANGED <<variant, args, apiKey, prompt, calls, outcome, analysis,
                   saved, report, save_success, pubAttempted, pubCalls,
                   comment, success, summary>>

\* read_log of scripts/analyze_log.py: open's error is caught nowhere and
\* ends the process with a traceback.
ReadLog ==
    /\ pc = "read"
    /\ variant = "script"
    /\ \E r \in ReadOutcomes :
         IF r = "ok"
         THEN /\ \E d \in Docs : log' = d
              /\ logRead' = TRUE
              /\ pc' = "prompt"
              /\ exitCode' = exitCode
         ELSE /\ Exit(1)
              /\ UNCHANGED <<log, logRead>>
    /\ UNCHANGED <<variant, args, apiKey, prompt, calls, outcome, analysis,
                   saved, report, save_success, pubAttempted, pubCalls,
                   comment, success, summary>>

\* make_prompt
MakePrompt ==
    /\ pc = "prompt"
    /\ prompt' = [template |-> "script", excerpt |-> ScriptExcerpt(log)]
    /\ pc' = "key"
    /\ UNCHANGED <<variant, args, apiKey, logRead, log, calls, outcome,
                   analysis, saved, report, save_success, pubAttempted,
                   pubCalls, comment, success, summary, exitCode>>

\* main of scripts/analyze_log.py, the check of AI_API_KEY.
CheckApiKey ==
    /\ pc = "key"
    /\ IF Absent(apiKey) THEN Exit(1)
       ELSE pc' = "call" /\ exitCode' = exitCode
    /\ UNCHANGED <<variant, args, apiKey, logRead, log, prompt, calls,
                   outcome, analysis, saved, report, save_success,
                   pubAttempted, pubCalls, comment, success, summary>>

\* main's try around call_gemini: one requests.post, then the text of the
\* response or of the error.
CallGemini ==
    /\ pc = "call"
    /\ \E o \in Outcomes :
         /\ outcome' = o
         /\ analysis' = ScriptAnalysis(o, apiKey)
    /\ calls' = calls + 1
    /\ pc' = "write"
    /\ UNCHANGED <<variant, args, apiKey, logRead, log, prompt, saved,
                   report, save_success, pubAttempted, pubCalls, comment,
                   success, summary, exitCode>>

\* main's write of the output file; open's error is caught nowhere.
WriteAnalysis ==
    /\ pc = "write"
    /\ \E written \in BOOLEAN :
         IF written
         THEN /\ report' = SaveContent(variant, analysis, "")
              /\ saved' = TRUE
              /\ pc' = "print"
              /\ exitCode' = exitCode
         ELSE /\ Exit(1)
              /\ UNCHANGED <<report, saved>>
    /\ UNCHANGED <<variant, args, apiKey, logRead, log, prompt, calls,
                   outcome, analysis, save_success, pubAttempted, pubCalls,
                   comment, success, summary>>

\* main's last line, print(analysis), and the normal end of the process.
PrintAnalysis ==
    /\ pc = "print"
    /\ summary' = "printed"
    /\ Exit(0)
    /\ UNCHANGED <<variant, args, apiKey, logRead, log, prompt, calls,
                   outcome, analysis, saved, report, save_success,
                   pubAttempted, pubCalls, comment, success>>

AnalyzeFrame ==
    UNCHANGED <<variant, args, apiKey, logRead, log, saved, report,
                save_success, pubAttempted, pubCalls, comment, success,
                summary>>

\* The key is not looked at before the client is called.
AnalyzeWithGeminiNoKeyCheck ==
    /\ pc = "analyze"
    /\ \E o \in Outcomes :
         /\ prompt' = [template |-> variant, excerpt |-> Truncate(log, MaxChars)]
         /\ calls' = calls + 1
         /\ outcome' = o
         /\ analysis' = SdkAnalysis(variant, o)
    /\ pc' = "save"
    /\ exitCode' = exitCode
    /\ AnalyzeFrame

\* The client's error leaves analyze_with_gemini and ends the process.
AnalyzeWithGeminiPropagate ==
    /\ pc = "analyze"
    /\ IF Absent(apiKey)
       THEN /\ analysis' = MissingCredentialText
            /\ pc' = "save" /\ exitCode' = exitCode
            /\ UNCHANGED <<prompt, calls, outcome>>
       ELSE \E o \in Outcomes :
              /\ prompt' = [template |-> variant, excerpt |-> Truncate(log, MaxChars)]
              /\ calls' = calls + 1
              /\ outcome' = o
              /\ IF o = "ok"
                 THEN analysis' = GeneratedText /\ pc' = "save" /\ exitCode' = exitCode
                 ELSE analysis' = analysis /\ Exit(1)
    /\ AnalyzeFrame

\* A failed call is tried once more.
AnalyzeWithGeminiRetry ==
    /\ pc = "analyze"
    /\ IF Absent(apiKey)
       THEN /\ analysis' = MissingCredentialText
            /\ UNCHANGED <<prompt, calls, outcome>>
       ELSE \E o \in Outcomes :
              /\ prompt' = [template |-> variant, excerpt |-> Truncate(log, MaxChars)]
              /\ calls' = IF o = "ok" THEN calls + 1 ELSE calls + 2
              /\ outcome' = o
              /\ analysis' = SdkAnalysis(variant, o)
    /\ pc' = "save"
    /\ exitCode' = exitCode
    /\ AnalyzeFrame

\* analyze_with_gemini: without a key the fixed message and nothing else;
\* with one, the truncation, the prompt, one generate_content call, and the
\* response's text or, for whatever was raised, the troubleshooting text.
\* genai.configure and GenerativeModel(...) only store their arguments; the
\* one statement of the try block that reaches the network is
\* generate_content, and response.text raises when the response holds no
\* text part.
AnalyzeWithGemini ==
    /\ pc = "analyze"
    /\ IF Absent(apiKey)
       THEN /\ analysis' = MissingCredentialText
            /\ UNCHANGED <<prompt, calls, outcome>>
       ELSE \E o \in Outcomes :
              /\ prompt' = [template |-> variant, excerpt |-> Truncate(log, MaxChars)]
              /\ calls' = calls + 1
              /\ outcome' = o
              /\ analysis' = SdkAnalysis(variant, o)
    /\ pc' = "save"
    /\ exitCode' = exitCode
    /\ AnalyzeFrame

\* save_analysis: the report is written and True returned, or the output
\* file could not be opened, which is printed and answered with False (the
\* file is then not there).
SaveAnalysis ==
    /\ pc = "save"
    /\ \E written \in BOOLEAN, ts \in Clock :
         IF written
         THEN /\ report' = SaveContent(variant, analysis, ts)
              /\ saved' = TRUE
              /\ save_success' = TRUE
         ELSE /\ save_success' = FALSE
              /\ UNCHANGED <<report, saved>>
    /\ pc' = IF variant = "comment" THEN "publish" ELSE "display"
    /\ UNCHANGED <<variant, args, apiKey, logRead, log, prompt, calls,
                   outcome, analysis, pubAttempted, pubCalls, comment,
                   success, summary, exitCode>>

\* main's step 4 and post_github_comment: without GITHUB_TOKEN False at
\* once; with it the comment is created, or the client's error is printed
\* and answered with False.
PostGithubComment ==
    /\ pc = "publish"
    /\ pubAttempted' = TRUE
    /\ \E github_token \in GithubTokens, ts \in Clock, posted \in BOOLEAN :
         IF Absent(github_token)
         THEN /\ success' = FALSE
              /\ UNCHANGED <<pubCalls, comment>>
         ELSE /\ pubCalls' = pubCalls + 1
              /\ success' = posted
              /\ comment' = IF posted THEN CommentBody(analysis, ts) ELSE comment
    /\ pc' = "summary"
    /\ UNCHANGED <<variant, args, apiKey, logRead, log, prompt, calls,
                   outcome, analysis, saved, report, save_success, summary,
                   exitCode>>

\* main's step 5 in analyze_and_comment.py; main returns, exit status 0.
DisplaySummary ==
    /\ pc = "summary"
    /\ summary' = IF success THEN "all operations completed"
                  ELSE "analysis completed but comment failed"
    /\ Exit(0)
    /\ UNCHANGED <<variant, args, apiKey, logRead, log, prompt, calls,
                   outcome, analysis, saved, report, save_success,
                   pubAttempted, pubCalls, comment, success>>

\* main's step 4 and summary in analyze_log.py; main returns, exit status 0.
DisplayResults ==
    /\ pc = "display"
    /\ summary' = IF save_success THEN "analysis complete, report saved"
                  ELSE "analysis complete"
    /\ Exit(0)
    /\ UNCHANGED <<variant, args, apiKey, logRead, log, prompt, calls,
                   outcome, analysis, saved, report, save_success,
                   pubAttempted, pubCalls, comment, success>>

Next ==
    \/ ParseArguments
    \/ ReadLogFile
    \/ ReadLog
    \/ MakePrompt
    \/ CheckApiKey
    \/ CallGemini
    \/ WriteAnalysis
    \/ PrintAnalysis
    \/ AnalyzeWithGemini
    \/ SaveAnalysis
    \/ PostGithubComment
    \/ DisplaySummary
    \/ DisplayResults

Spec == Init /\ [][Next]_vars

Done == pc = "done"

\* ================================================================ claims
TwoScripts == {"standalone", "comment"}

\* The log was read and the analysis stage met one of its failures.
AnalysisFailed == logRead /\ (Absent(apiKey) \/ outcome \in Failures)

\* main is past the analysis stage of analyze_log.py / analyze_and_comment.py.
PastAnalyze == pc \in {"save", "publish", "display", "summary", "done"} /\ logRead

\* The text a script puts in place of an analysis when the stage failed.
IsFallbackText(v, text) ==
    IF v \in TwoScripts
    THEN text = MissingCredentialText \/ IsFallback(v, text)
    ELSE Len(text) >= 2 /\ text[1] = ScriptErrorPrefix

HeaderLen(v) == Len(ReportHeader(v, ""))
FooterLen(v) == Len(ReportFooter(v))
ReportBody == SubSeq(report, HeaderLen(variant) + 1, Len(report) - FooterLen(variant))

Mentions(text, value) == \E i \in 1..Len(text) : text[i] = value

\* ---------------------------------------------------------------- C1
\* C1 as claimed: in every script, a run that read the log and whose analysis
\* stage failed ends with the failure turned into fallback text, that text
\* the body of whatever report was written, and exit status 0 unless the
\* write of the output file itself failed.
C1_FailSoftInEveryScript ==
    (AnalysisFailed /\ Done) =>
        /\ IsFallbackText(variant, analysis)
        /\ saved => ReportBody = analysis
        /\ exitCode = 0 \/ (variant = "script" /\ analysis # <<>> /\ ~saved)

\* C1 amended: in analyze_log.py and analyze_and_comment.py every failure of
\* the analysis stage becomes fallback text, main goes on to the save step
\* with it, a report that is written has it as its body, and the run ends
\* with exit status 0.  scripts/analyze_log.py ends with status 1 and no
\* report when the key is absent, writes the raw response when it lacks
\* "candidates", and writes a one-line error text for the other failures.
C1_FailSoft ==
    /\ (variant \in TwoScripts /\ AnalysisFailed /\ pc \notin {"read", "analyze"}) =>
          /\ PastAnalyze
          /\ IsFallbackText(variant, analysis)
          /\ analysis # GeneratedText
          /\ saved => ReportBody = analysis
          /\ Done => (exitCode = 0 /\ saved = save_success)
    /\ (variant = "script" /\ AnalysisFailed /\ Done) =>
          IF Absent(apiKey) THEN exitCode = 1 /\ ~saved /\ analysis = <<>>
          ELSE IF outcome = "no_candidates" THEN analysis = RawResponseJson
          ELSE IsFallbackText(variant, analysis)

C1_Witness ==
    /\ variant \in TwoScripts /\ Done /\ outcome = "rate_limited"
    /\ saved /\ exitCode = 0 /\ IsFallback(variant, ReportBody)

\* ---------------------------------------------------------------- C2
\* C2 as claimed: a run that read the log without a credential ends with the
\* MissingCredential text as the analysis result and no backend call.
C2_MissingCredentialResult ==
    (logRead /\ Absent(apiKey) /\ Done) =>
        (analysis = MissingCredentialText /\ calls = 0)

\* C2 amended: without a credential no script calls the backend or sets up
\* a client; analyze_log.py and analyze_and_comment.py return the fixed
\* MissingCredential text as the analysis, scripts/analyze_log.py has no
\* result and ends with exit status 1 and no report.
C2_NoCallWithoutCredential ==
    Absent(apiKey) =>
        /\ calls = 0 /\ outcome = "none"
        /\ variant \in TwoScripts =>
              /\ prompt = NoPrompt
              /\ PastAnalyze => analysis = MissingCredentialText
        /\ variant = "script" =>
              /\ analysis = <<>> /\ ~saved
              /\ (logRead /\ Done) => exitCode = 1

C2_Witness ==
    /\ variant = "comment" /\ apiKey = "" /\ Done /\ calls = 0
    /\ analysis = MissingCredentialText /\ saved

\* ---------------------------------------------------------------- C3
PromptBuilt == prompt # NoPrompt

\* C3 as claimed: whenever a prompt was built from a log longer than
\* MaxChars, the excerpt in it is the marker followed by exactly the last
\* MaxChars characters of the log.
C3_TailExcerptInEveryScript ==
    (PromptBuilt /\ Len(log) > MaxChars) =>
        /\ Len(prompt.excerpt) = MaxChars + 1
        /\ prompt.excerpt[1] = Marker
        /\ \A i \in 1..MaxChars :
              prompt.excerpt[i + 1] = log[Len(log) - MaxChars + i]

\* C3 amended: that holds of the prompts of analyze_log.py and
\* analyze_and_comment.py; scripts/analyze_log.py cuts by lines and never
\* adds the marker.
C3_TailExcerpt ==
    /\ (variant \in TwoScripts /\ PromptBuilt /\ Len(log) > MaxChars) =>
          /\ Len(prompt.excerpt) = MaxChars + 1
          /\ prompt.excerpt[1] = Marker
          /\ \A i \in 1..MaxChars :
                prompt.excerpt[i + 1] = log[Len(log) - MaxChars + i]
    /\ (variant = "script" /\ PromptBuilt) => ~Mentions(prompt.excerpt, Marker)

C3_Witness ==
    /\ variant = "standalone" /\ PromptBuilt /\ Len(log) = MaxChars + 2
    /\ log[1] # log[Len(log)] /\ prompt.excerpt[1] = Marker

\* ---------------------------------------------------------------- C4
\* C4 as claimed: whenever a prompt was built from a log of at most MaxChars
\* characters, the excerpt in it is the log, character for character.
C4_WholeLogInEveryScript ==
    (PromptBuilt /\ Len(log) <= MaxChars) => prompt.excerpt = log

\* C4 amended: that holds of the prompts of analyze_log.py and
\* analyze_and_comment.py (no marker, nothing dropped).
C4_WholeLog ==
    (variant \in TwoScripts /\ PromptBuilt /\ Len(log) <= MaxChars) =>
        /\ prompt.excerpt = log
        /\ ~Mentions(prompt.excerpt, Marker)

C4_Witness ==
    /\ variant = "comment" /\ PromptBuilt /\ Len(log) = MaxChars
    /\ prompt.excerpt = log

\* ---------------------------------------------------------------- C5
\* C5 as claimed: whenever post_github_comment has been called the report is
\* in the output file, and a failed publish ends in the warning
\* "analysis completed but comment failed" with exit status 0.
C5_SavedBeforePublish ==
    /\ pubAttempted => saved
    /\ (pubAttempted /\ ~success /\ Done) =>
          (summary = "analysis completed but comment failed" /\ exitCode = 0)

\* ---------------------------------------------------------------- C6
\* C6: as long as the log has not been read there is no backend call, no
\* publish call, no comment and no report, and a run whose arguments were
\* accepted and whose log could not be read has ended with exit status 1.
C6_AbortBeforeNetwork ==
    ~logRead =>
        /\ calls = 0 /\ outcome = "none"
        /\ pubCalls = 0 /\ ~pubAttempted /\ comment = <<>>
        /\ ~saved /\ report = <<>>
        /\ pc \in {"start", "read", "done"}
        /\ (args = "ok" /\ Done) => exitCode = 1

C6_Witness ==
    args = "ok" /\ ~logRead /\ Done /\ exitCode = 1 /\ variant = "comment"

\* ---------------------------------------------------------------- C7
\* C7 as claimed: the credential's value is no part of the report written
\* nor of the comment published.
C7_NoCredentialInReport ==
    ~Absent(apiKey) => (~Mentions(report, apiKey) /\ ~Mentions(comment, apiKey))

\* ---------------------------------------------------------------- C8
\* C8 as claimed: a response that arrived without the generated text at the
\* expected path yields fallback text, never the success text and never
\* its own raw content.
C8_ShapeFailureInEveryScript ==
    (outcome \in ShapeFailures) =>
        /\ IsFallbackText(variant, analysis)
        /\ analysis # GeneratedText
        /\ analysis # RawResponseJson

\* C8 amended: that holds of analyze_log.py and analyze_and_comment.py, and
\* of scripts/analyze_log.py for a body that is no JSON or has "candidates"
\* without the nested text; a JSON response without "candidates" it returns
\* as its raw dump, which becomes the analysis body.
C8_ShapeFailure ==
    (outcome \in ShapeFailures) =>
        IF variant = "script" /\ outcome = "no_candidates"
        THEN analysis = RawResponseJson
        ELSE /\ IsFallbackText(variant, analysis)
             /\ analysis # MissingCredentialText
             /\ analysis # GeneratedText
             /\ analysis # RawResponseJson
             /\ saved => ReportBody = analysis

C8_Witness ==
    /\ variant = "standalone" /\ outcome = "no_candidates" /\ saved
    /\ IsFallback(variant, ReportBody)

\* ---------------------------------------------------------------- C9
\* C9: no run calls the backend twice; a run that read the log with a
\* credential present has, once the call ended (well or not) and to its end,
\* made exactly one call.
C9_ExactlyOneCall ==
    /\ calls <= 1
    /\ outcome # "none" => calls = 1
    /\ (logRead /\ ~Absent(apiKey) /\ Done) => (calls = 1 /\ outcome # "none")

C9_Witness ==
    /\ Done /\ ~Absent(apiKey) /\ outcome \in Failures /\ calls = 1

\* --------------------------------------------------------------- C10
Timestamped(text, i) == text[i] = "Generated: " /\ text[i + 1] \in Clock

\* C10 as claimed: every report written starts with the delimiter and the
\* title, carries a timestamp, and has the body between a delimiter and a
\* closing delimiter with the footer behind it.
C10_EnvelopeInEveryScript ==
    saved =>
        /\ Len(report) >= Len(analysis) + 6
        /\ report[1] = Delimiter
        /\ report[2] = Title
        /\ \E i \in 3..Len(report) - 1 : Timestamped(report, i)
        /\ report[Len(report)] = Delimiter

\* C10 amended: every report written by analyze_log.py or
\* analyze_and_comment.py has that script's fixed envelope, whatever the
\* analysis: delimiter, title, the generation timestamp and a delimiter
\* before the body, and after it a delimiter, the footer text and a last
\* delimiter.  scripts/analyze_log.py writes the analysis text alone.
C10_Envelope ==
    saved =>
        IF variant = "script" THEN report = analysis
        ELSE LET h == IF variant = "standalone" THEN 8 ELSE 5
                 b == Len(analysis)
                 n == Len(report)
             IN /\ n > h + b + 2
                /\ report[1] = Delimiter
                /\ report[2] = Title
                /\ \E i \in 3..h - 2 : Timestamped(report, i)
                /\ report[h] = Delimiter
                /\ SubSeq(report, h + 1, h + b) = analysis
                /\ report[h + b + 1] = Delimiter
                /\ \A i \in h + b + 2..n - 1 : report[i] \notin {Delimiter, Title}
                /\ report[n] = Delimiter

C10_Witness ==
    /\ saved /\ variant = "standalone" /\ outcome = "timeout"
    /\ Mentions(report, "End of Analysis")
====
